---- MODULE Spec2Model ----
(***************************************************************************)
(* A model of planet/api/dispatch.py: the throttler (_Throttler), the      *)
(* redirect-safe session (RedirectSession.rebuild_auth), header            *)
(* construction (_headers) and the dispatcher's three operations           *)
(* (_dispatch, _dispatch_async, dispatch_request).                         *)
(*                                                                         *)
(* Strings are sequences of one-character strings.  Time is a discrete     *)
(* monotone clock `now`; one tick is half of the throttler's interval.     *)
(***************************************************************************)
EXTENDS Integers, Sequences, FiniteSets, TLC

\* ------------------------------------------------------------------ bounds
\* caller threads, each issuing one request
NumReq == 2
\* configured worker count of the pool (the constructor's `workers`)
Workers == 1
\* longest credential value drawn for a redirect
MaxKeyLen == 2
\* longest redirect chain followed
MaxHops == 2

\* ------------------------------------------------------- program constants
\* self._wait = 1./ops, in ticks
Wait == 2
\* a semaphore that admits two holders
SemaphoreInitTwo == 1 + 1

\* threading.Semaphore(): the initial value of the counter
SemaphoreInit == 1

Reqs == 1..NumReq
\* the RequestsDispatcher instances of the process, each with the throttler
\* its __init__ made
Dispatchers == {1, 2}
None == "None"
NoTime == -1

\* an optional value: Python's None, or a string
NoneVal == [some |-> FALSE, chars |-> <<>>]
Some(c) == [some |-> TRUE, chars |-> c]

\* ------------------------------------------------------------------ strings
ApiKeyPrefix == <<"a", "p", "i", "-", "k", "e", "y", " ">>
ContentJson == <<"j", "s", "o", "n">>

\* Python truthiness of an optional string: None and "" are falsy
Truthy(x) == x.some /\ x.chars # <<>>

\* a dict as a function over its keys
EmptyDict == [k \in {} |-> <<>>]
Put(d, k, v) == [x \in (DOMAIN d) \cup {k} |-> IF x = k THEN v ELSE d[x]]
Pop(d, k) == [x \in (DOMAIN d) \ {k} |-> d[x]]
Get(d, k) == IF k \in DOMAIN d THEN Some(d[k]) ELSE NoneVal

\* ------------------------------------------------------------------ _headers
\* 'api-key %s' % request.auth.value
AuthHeader(auth) == ApiKeyPrefix \o auth.chars

\* _headers without its else branch: a request without a credential gets
\* headers that lack Authorization
HeadersNoRaise(request) ==
    LET h0 == EmptyDict
        h1 == IF Truthy(request.data) THEN Put(h0, "Content-Type", ContentJson) ELSE h0
    IN  [raised |-> None,
         headers |-> IF request.auth.some
                     THEN Put(h1, "Authorization", AuthHeader(request.auth)) ELSE h1]

\* _headers testing `request.data is not None` instead of its truth value
HeadersDataNotNone(request) ==
    LET h0 == EmptyDict
        h1 == IF request.data.some THEN Put(h0, "Content-Type", ContentJson) ELSE h0
    IN  IF request.auth.some
        THEN [raised |-> None, headers |-> Put(h1, "Authorization", AuthHeader(request.auth))]
        ELSE [raised |-> "InvalidAPIKey", headers |-> EmptyDict]

\* _headers(request): the headers, or the InvalidAPIKey it raises
Headers(request) ==
    LET h0 == EmptyDict
        h1 == IF Truthy(request.data) THEN Put(h0, "Content-Type", ContentJson) ELSE h0
    IN  IF request.auth.some
        THEN [raised |-> None, headers |-> Put(h1, "Authorization", AuthHeader(request.auth))]
        ELSE [raised |-> "InvalidAPIKey", headers |-> EmptyDict]

\* -------------------------------------------------------------- check_status
\* utils.check_status(response): the exception it raises, None when it returns
CheckStatus(response) ==
    IF response.status >= 400
    THEN [raised |-> "APIException", text |-> response.text]
    ELSE [raised |-> None, text |-> None]

\* ------------------------------------------------------------------- inputs
\* request.auth is None or an APIKey object (always truthy) holding .value
Keys == {Some(<<"k">>)}
Auths == {NoneVal} \cup Keys
Datas == {NoneVal, Some(<<>>), Some(<<"{", "}">>)}
Kinds == {"sync", "async", "legacy"}
Requests == [kind : Kinds, auth : Auths, data : Datas]
Responses == {[status |-> 200, text |-> "ok"],
              [status |-> 404, text |-> "Error message"],
              [status |-> 500, text |-> "Server error"]}
\* Caller 1 issues any request and its transport call may end in any way; the
\* other callers are load on the same dispatcher: authenticated requests
\* without a body, through _dispatch or _dispatch_async, that are answered 200
VariedCallers == {1}
PlainRequests == [kind : {"sync", "async"}, auth : Keys, data : {NoneVal}]
Menu(r) == IF r \in VariedCallers THEN Requests ELSE PlainRequests
Replies(r) == IF r \in VariedCallers THEN Responses ELSE {[status |-> 200, text |-> "ok"]}
MayFail(r) == r \in VariedCallers
NoRequest == [kind |-> None, auth |-> NoneVal, data |-> NoneVal]
NoResponse == [status |-> 0, text |-> None]
NoPrepared == [url |-> [host |-> <<>>, query |-> <<>>], headers |-> EmptyDict]

VARIABLES
    now,        \* time.time()
    sem,        \* sem[d]: _Throttler._cond of dispatcher d's throttler: the semaphore's counter
    t,          \* t[d]: _Throttler._t of dispatcher d's throttler
    pc,         \* pc[r]: where caller r is in its dispatch
    req,        \* req[r]: the request caller r dispatches
    wake,       \* wake[r]: when r's time.sleep(w) in __exit__ may return
    pending,    \* pending[r]: what the with-body produced: a return value or an exception
    result,     \* result[r]: what the caller got back (returned or raised)
    acquired,   \* acquired[r]: throttler acquisitions made for r
    netCalls,   \* netCalls[r]: transport calls started for r
    sent,       \* sent[r]: the headers r was transmitted with
    resp,       \* resp[r]: the transport's response for r
    job,        \* job[r]: r's task in the worker pool
    queue,      \* the pool's work queue
    cbCount,    \* cbCount[r]: invocations of r's callback
    logged,     \* logged[r]: _log_request records for r
    timed,      \* timed[r]: 'request took' records for r
    starts,     \* history: starts[d]: the instants at which the scope of d's throttler was entered
    disp,       \* disp[r]: the dispatcher instance caller r calls
    stampOf,    \* history: stampOf[r]: the time.time() r read in its __enter__, while r
                \* is in the throttler's scope
    chain,      \* the requests sent for one call of the session: the first, then one per redirect
    prepared    \* the prepared_request the last rebuild_auth was given, as it was given

dvars == <<now, sem, t, pc, req, wake, pending, result, acquired, netCalls, sent,
           resp, job, queue, cbCount, logged, timed, starts, disp, stampOf>>
rvars == <<chain, prepared>>
vars == <<dvars, rvars, disp, stampOf>>

\* what a call produces: it returns `what` ("response", "future") or raises
\* the exception `what` whose str() is `text`
NoResult == [kind |-> None, what |-> None, text |-> None]
Returned(v) == [kind |-> "return", what |-> v, text |-> None]
Raised(e, text) == [kind |-> "raise", what |-> e, text |-> text]

DispatcherInit ==
    /\ now = 0
    /\ sem = [d \in Dispatchers |-> SemaphoreInit]
    /\ t = [d \in Dispatchers |-> NoTime]
    /\ pc = [r \in Reqs |-> "idle"]
    /\ req = [r \in Reqs |-> NoRequest]
    /\ wake = [r \in Reqs |-> NoTime]
    /\ pending = [r \in Reqs |-> NoResult]
    /\ result = [r \in Reqs |-> NoResult]
    /\ acquired = [r \in Reqs |-> 0]
    /\ netCalls = [r \in Reqs |-> 0]
    /\ sent = [r \in Reqs |-> EmptyDict]
    /\ resp = [r \in Reqs |-> NoResponse]
    /\ job = [r \in Reqs |-> "none"]
    /\ queue = <<>>
    /\ cbCount = [r \in Reqs |-> 0]
    /\ logged = [r \in Reqs |-> 0]
    /\ timed = [r \in Reqs |-> 0]
    /\ starts = [d \in Dispatchers |-> <<>>]
    /\ disp = [r \in Reqs |-> 1]
    /\ stampOf = [r \in Reqs |-> NoTime]

\* no call of the session is followed
Init ==
    /\ DispatcherInit
    /\ chain = <<>>
    /\ prepared = NoPrepared

\* the clock advances.  The program reads the clock only as time.time() - self._t,
\* compared with self._wait: ticks before the first stamp, and ticks later than
\* Wait + 1 after the last one, change no value the program computes, and are
\* left out
Tick ==
    /\ \E d \in Dispatchers : t[d] # NoTime /\ now - t[d] <= Wait
    /\ now' = now + 1
    /\ UNCHANGED <<sem, t, pc, req, wake, pending, result, acquired, netCalls, sent,
                   resp, job, queue, cbCount, logged, timed, starts, rvars, disp, stampOf>>

\* a caller calls _dispatch, _dispatch_async or dispatch_request of dispatcher d
\* with a request
\* (the load callers are interchangeable: they are numbered in the order of
\* their calls)
CallOn(r, request, d) ==
    /\ pc[r] = "idle"
    /\ request \in Menu(r)
    /\ r \notin VariedCallers => \A q \in Reqs \ VariedCallers : q < r => pc[q] # "idle"
    /\ req' = [req EXCEPT ![r] = request]
    /\ disp' = [disp EXCEPT ![r] = d]
    /\ pc' = [pc EXCEPT ![r] = IF request.kind = "legacy" THEN "legacy" ELSE "acquire"]
    /\ UNCHANGED <<now, sem, t, wake, pending, result, acquired, netCalls, sent,
                   resp, job, queue, cbCount, logged, timed, starts, rvars, stampOf>>

\* a call on the one dispatcher of a process that made one
Call(r, request) == CallOn(r, request, 1)

\* ---------------------------------------------------------------- _Throttler
\* one throttler shared by all instances (a module-level or class-level one)
ThrottlerShared(d) == 1

\* self._throttler = _Throttler(): the throttler of dispatcher d is its own
Throttler(d) == d

\* an acquire that never blocks
CanAcquireAlways(s) == TRUE

\* Semaphore.acquire() may return
CanAcquire(s) == s > 0

\* __enter__, first half: self._cond.acquire()
ThrottlerAcquire(r) ==
    /\ pc[r] = "acquire"
    /\ CanAcquire(sem[Throttler(disp[r])])
    /\ sem' = [sem EXCEPT ![Throttler(disp[r])] = @ - 1]
    /\ acquired' = [acquired EXCEPT ![r] = @ + 1]
    /\ pc' = [pc EXCEPT ![r] = "stamp"]
    /\ UNCHANGED <<now, t, req, wake, pending, result, netCalls, sent,
                   resp, job, queue, cbCount, logged, timed, starts, rvars, disp, stampOf>>

\* __enter__, second half: self._t = time.time(); the with-body is entered
ThrottlerStamp(r) ==
    /\ pc[r] = "stamp"
    /\ t' = [t EXCEPT ![Throttler(disp[r])] = now]
    /\ starts' = [starts EXCEPT ![Throttler(disp[r])] = Append(@, now)]
    /\ stampOf' = [stampOf EXCEPT ![r] = now]
    /\ pc' = [pc EXCEPT ![r] = "body"]
    /\ UNCHANGED <<now, sem, req, wake, pending, result, acquired, netCalls, sent,
                   resp, job, queue, cbCount, logged, timed, rvars, disp>>

\* the residual wait with its sign turned
ResidualWaitNegated(clock, stamp) == (clock - stamp) - Wait

\* w = self._wait - (time.time() - self._t)
ResidualWait(clock, stamp) == Wait - (clock - stamp)

\* an __exit__ that returns True: the body's exception is swallowed and the
\* with statement completes
OutcomeSuppressed(p) == IF p.kind = "raise" THEN Returned(None) ELSE p

\* what the with statement hands to the caller once __exit__ returned False:
\* the body's return value, or the body's exception re-raised
Outcome(p) == p

\* an __exit__ that releases only after a body that returned
ReleaseUnlessRaised(s, p) == IF p.kind = "raise" THEN s ELSE s + 1

\* self._cond.release() in __exit__, which the with statement runs whether the
\* body ended with the outcome p of a return or of an exception
Release(s, p) == s + 1

\* __exit__ up to time.sleep: with w > 0 the thread sleeps, else it
\* releases at once
ThrottlerExit(r) ==
    /\ pc[r] = "exit"
    /\ LET w == ResidualWait(now, t[Throttler(disp[r])])
       IN  IF w > 0
           THEN /\ wake' = [wake EXCEPT ![r] = now + w]
                /\ pc' = [pc EXCEPT ![r] = "sleep"]
                /\ UNCHANGED <<sem, result, stampOf>>
           ELSE /\ sem' = [sem EXCEPT ![Throttler(disp[r])] = Release(@, pending[r])]
                /\ result' = [result EXCEPT ![r] = Outcome(pending[r])]
                /\ stampOf' = [stampOf EXCEPT ![r] = NoTime]
                /\ pc' = [pc EXCEPT ![r] = "done"]
                /\ UNCHANGED wake
    /\ UNCHANGED <<now, t, req, pending, acquired, netCalls, sent,
                   resp, job, queue, cbCount, logged, timed, starts, rvars, disp>>

\* time.sleep(w) returns (never early), then self._cond.release(); return False
ThrottlerRelease(r) ==
    /\ pc[r] = "sleep"
    /\ now >= wake[r]
    /\ sem' = [sem EXCEPT ![Throttler(disp[r])] = Release(@, pending[r])]
    /\ result' = [result EXCEPT ![r] = Outcome(pending[r])]
    /\ stampOf' = [stampOf EXCEPT ![r] = NoTime]
    /\ pc' = [pc EXCEPT ![r] = "done"]
    /\ UNCHANGED <<now, t, req, wake, pending, acquired, netCalls, sent,
                   resp, job, queue, cbCount, logged, timed, starts, rvars, disp>>

\* ------------------------------------------------------------- the transport
\* a transport call for r starts with these headers: the request is on the wire
Transmit(r, headers) ==
    /\ netCalls' = [netCalls EXCEPT ![r] = @ + 1]
    /\ sent' = [sent EXCEPT ![r] = headers]

\* ------------------------------------------------------------------ _dispatch
\* the with-body up to the transport call: _log_request, then the arguments of
\* session.request are built (_headers may raise), then the call is made
DispatchSend(r) ==
    /\ pc[r] = "body"
    /\ req[r].kind = "sync"
    /\ logged' = [logged EXCEPT ![r] = @ + 1]
    /\ LET h == Headers(req[r])
       IN  IF h.raised # None
           THEN /\ pending' = [pending EXCEPT ![r] = Raised(h.raised, "No API key provided")]
                /\ pc' = [pc EXCEPT ![r] = "exit"]
                /\ UNCHANGED <<netCalls, sent>>
           ELSE /\ Transmit(r, h.headers)
                /\ pc' = [pc EXCEPT ![r] = "net"]
                /\ UNCHANGED pending
    /\ UNCHANGED <<now, sem, t, req, wake, result, acquired,
                   resp, job, queue, cbCount, timed, starts, rvars, disp, stampOf>>

\* the latency record written in a finally clause
DispatchFinishTimedAlways(response) ==
    LET cs == CheckStatus(response)
    IN  IF cs.raised # None
        THEN [out |-> Raised(cs.raised, cs.text), timed |-> 1]
        ELSE [out |-> Returned("response"), timed |-> 1]

\* the rest of the body without check_status
DispatchFinishUnchecked(response) == [out |-> Returned("response"), timed |-> 1]

\* check_status(response); log.info('request took ...'); return response
DispatchFinish(response) ==
    LET cs == CheckStatus(response)
    IN  IF cs.raised # None
        THEN [out |-> Raised(cs.raised, cs.text), timed |-> 0]
        ELSE [out |-> Returned("response"), timed |-> 1]

\* session.request returns a response; the rest of the with-body runs
DispatchReceive(r, response) ==
    /\ response \in Replies(r)
    /\ pc[r] = "net"
    /\ resp' = [resp EXCEPT ![r] = response]
    /\ LET f == DispatchFinish(response)
       IN  /\ pending' = [pending EXCEPT ![r] = f.out]
           /\ timed' = [timed EXCEPT ![r] = @ + f.timed]
    /\ pc' = [pc EXCEPT ![r] = "exit"]
    /\ UNCHANGED <<now, sem, t, req, wake, result, acquired, netCalls, sent,
                   job, queue, cbCount, logged, starts, rvars, disp, stampOf>>

\* session.request raises a transport error, which leaves the with-body
DispatchTransportError(r) ==
    /\ MayFail(r)
    /\ pc[r] = "net"
    /\ pending' = [pending EXCEPT ![r] = Raised("TransportError", "connection reset")]
    /\ pc' = [pc EXCEPT ![r] = "exit"]
    /\ UNCHANGED <<now, sem, t, req, wake, result, acquired, netCalls, sent,
                   resp, job, queue, cbCount, logged, timed, starts, rvars, disp, stampOf>>

\* ------------------------------------------------------------ _dispatch_async
\* the with-body: _log_request, the arguments are built (_headers may raise),
\* then self._asyncpool.request submits the call to the executor and returns
\* its future
DispatchAsyncSubmit(r) ==
    /\ pc[r] = "body"
    /\ req[r].kind = "async"
    /\ logged' = [logged EXCEPT ![r] = @ + 1]
    /\ LET h == Headers(req[r])
       IN  IF h.raised # None
           THEN /\ pending' = [pending EXCEPT ![r] = Raised(h.raised, "No API key provided")]
                /\ UNCHANGED <<queue, job>>
           ELSE /\ queue' = Append(queue, [id |-> r, headers |-> h.headers])
                /\ job' = [job EXCEPT ![r] = "queued"]
                /\ pending' = [pending EXCEPT ![r] = Returned("future")]
    /\ pc' = [pc EXCEPT ![r] = "exit"]
    /\ UNCHANGED <<now, sem, t, req, wake, result, acquired, netCalls, sent,
                   resp, cbCount, timed, starts, rvars, disp, stampOf>>

\* ------------------------------------------------ FuturesSession(max_workers)
Running == {r \in Reqs : job[r] = "running"}

\* an executor that starts a thread for every task
WorkerFreeAlways(running) == TRUE

\* a worker thread of the executor is idle
WorkerFree(running) == Cardinality(running) < Workers

\* an idle worker takes the oldest task of the queue and starts its
\* transport call
WorkerStart ==
    /\ queue # <<>>
    /\ WorkerFree(Running)
    /\ LET task == Head(queue)
       IN  /\ job' = [job EXCEPT ![task.id] = "running"]
           /\ Transmit(task.id, task.headers)
    /\ queue' = Tail(queue)
    /\ UNCHANGED <<now, sem, t, pc, req, wake, pending, result, acquired,
                   resp, cbCount, logged, timed, starts, rvars, disp, stampOf>>

\* a wrapper that runs the callback in a finally clause
CallbackRunsAlways(outcome) == 1

\* the wrapper of background_callback: resp = request(...);
\* background_callback(self, resp); return resp.  How often the callback runs
\* for a task whose transport call ended with `outcome`
CallbackRuns(outcome) == IF outcome = "response" THEN 1 ELSE 0

\* a task that validates the status as _dispatch does
WorkerOutcomeChecked(response) ==
    IF CheckStatus(response).raised # None THEN "failed" ELSE "finished"

\* how the task ends when its transport call returned: the response becomes
\* the future's result as it is (check_status is not called on this path)
WorkerOutcome(response) == "finished"

\* the task's transport call returns a response (of any status): the callback
\* runs and the future holds the response
WorkerReceive(r, response) ==
    /\ response \in Replies(r)
    /\ job[r] = "running"
    /\ resp' = [resp EXCEPT ![r] = response]
    /\ cbCount' = [cbCount EXCEPT ![r] = @ + CallbackRuns("response")]
    /\ job' = [job EXCEPT ![r] = WorkerOutcome(response)]
    /\ UNCHANGED <<now, sem, t, pc, req, wake, pending, result, acquired, netCalls,
                   sent, queue, logged, timed, starts, rvars, disp, stampOf>>

\* the task's transport call raises: the future holds the exception
WorkerTransportError(r) ==
    /\ MayFail(r)
    /\ job[r] = "running"
    /\ cbCount' = [cbCount EXCEPT ![r] = @ + CallbackRuns("error")]
    /\ job' = [job EXCEPT ![r] = "failed"]
    /\ UNCHANGED <<now, sem, t, pc, req, wake, pending, result, acquired, netCalls,
                   sent, resp, queue, logged, timed, starts, rvars, disp, stampOf>>

\* ----------------------------------------------------------- dispatch_request
\* the headers dispatch_request builds: both, when auth is given, else none
LegacyHeaders(request) ==
    IF request.auth.some
    THEN Put(Put(EmptyDict, "Authorization", AuthHeader(request.auth)),
             "Content-Type", ContentJson)
    ELSE EmptyDict

\* dispatch_request up to session.send: the request is built, logged and sent
LegacySend(r) ==
    /\ pc[r] = "legacy"
    /\ logged' = [logged EXCEPT ![r] = @ + 1]
    /\ Transmit(r, LegacyHeaders(req[r]))
    /\ pc' = [pc EXCEPT ![r] = "legacynet"]
    /\ UNCHANGED <<now, sem, t, req, wake, pending, result, acquired,
                   resp, job, queue, cbCount, timed, starts, rvars, disp, stampOf>>

\* session.send returns: dispatch_request returns the response as it is
LegacyReceive(r, response) ==
    /\ response \in Replies(r)
    /\ pc[r] = "legacynet"
    /\ resp' = [resp EXCEPT ![r] = response]
    /\ result' = [result EXCEPT ![r] = Returned("response")]
    /\ pc' = [pc EXCEPT ![r] = "done"]
    /\ UNCHANGED <<now, sem, t, req, wake, pending, acquired, netCalls, sent,
                   job, queue, cbCount, logged, timed, starts, rvars, disp, stampOf>>

\* session.send raises a transport error
LegacyTransportError(r) ==
    /\ MayFail(r)
    /\ pc[r] = "legacynet"
    /\ result' = [result EXCEPT ![r] = Raised("TransportError", "connection reset")]
    /\ pc' = [pc EXCEPT ![r] = "done"]
    /\ UNCHANGED <<now, sem, t, req, wake, pending, acquired, netCalls, sent,
                   resp, job, queue, cbCount, logged, timed, starts, rvars, disp, stampOf>>

\* ------------------------------------------------------------ RedirectSession
\* url.split('.')[-2:]: the last two labels of a host, all of a shorter one
LastTwo(host) == IF Len(host) <= 2 THEN host ELSE SubSeq(host, Len(host) - 1, Len(host))

\* a comparison of the top-level label alone
IsSubdomainOfTldLastLabel(url1, url2) == url1.host[Len(url1.host)] = url2.host[Len(url2.host)]

\* a comparison of the whole hosts
IsSubdomainOfTldWholeHost(url1, url2) == url1.host = url2.host

\* _is_subdomain_of_tld(url1, url2); urlparse(url).hostname is the url's host
IsSubdomainOfTld(url1, url2) == LastTwo(url1.host) = LastTwo(url2.host)

\* the longest prefix of s without whitespace: what \S+ takes
RECURSIVE NonSpacePrefix(_)
NonSpacePrefix(s) ==
    IF s = <<>> \/ Head(s) = " " THEN <<>> ELSE <<Head(s)>> \o NonSpacePrefix(Tail(s))

\* re.match('api-key (\S+)', s): whether s starts with the pattern, and group(1)
ReMatch(s) ==
    LET n == Len(ApiKeyPrefix)
        rest == SubSeq(s, n + 1, Len(s))
    IN  IF Len(s) > n /\ SubSeq(s, 1, n) = ApiKeyPrefix /\ NonSpacePrefix(rest) # <<>>
        THEN [matched |-> TRUE, group1 |-> NonSpacePrefix(rest)]
        ELSE [matched |-> FALSE, group1 |-> <<>>]

\* urlencode's quoting of one character: the unreserved stay, the others
\* become %XX
QuoteChar(c) ==
    CASE c = "&" -> <<"%", "2", "6">>
      [] c = "=" -> <<"%", "3", "D">>
      [] c = "%" -> <<"%", "2", "5">>
      [] c = " " -> <<"+">>
      [] OTHER -> <<c>>

RECURSIVE Quote(_)
Quote(s) == IF s = <<>> THEN <<>> ELSE QuoteChar(Head(s)) \o Quote(Tail(s))

\* the query string of params {'api_key': value}
EncodeParams(value) == <<"api_key", "=">> \o Quote(value)

\* a prepare_url that appends the value as it is
PrepareUrlUnquoted(url, value) ==
    [url EXCEPT !.query = IF url.query # <<>>
                          THEN url.query \o <<"&">> \o <<"api_key", "=">> \o value
                          ELSE <<"api_key", "=">> \o value]

\* prepared_request.prepare_url(url, {'api_key': value}): the encoded
\* parameter is appended to the url's query
PrepareUrl(url, value) ==
    [url EXCEPT !.query = IF url.query # <<>>
                          THEN url.query \o <<"&">> \o EncodeParams(value)
                          ELSE EncodeParams(value)]

\* rebuild_auth(prepared_request, response), with orig = response.request.url:
\* the prepared request as the method leaves it
RebuildAuth(request, orig) ==
    LET existing_auth == Get(request.headers, "Authorization")
    IN  IF Truthy(existing_auth)
        THEN IF ~IsSubdomainOfTld(orig, request.url)
             THEN LET popped == [request EXCEPT !.headers = Pop(request.headers, "Authorization")]
                      key == ReMatch(existing_auth.chars)
                  IN  IF key.matched
                      THEN [popped EXCEPT !.url = PrepareUrl(popped.url, key.group1)]
                      ELSE popped
             ELSE request
        ELSE request

\* the hosts and urls of the redirects drawn
Hosts == {<<"api", "planet", "com">>, <<"planet", "com">>, <<"evil", "com">>,
          <<"planet", "org">>, <<"localhost">>}
Queries == {<<>>, <<"x", "=", "a">>}
Urls == [host : Hosts, query : Queries]

\* credential values: any string over KeyChars of at most MaxKeyLen characters
KeyChars == {"a", "&", " "}
KeyValues == UNION {[1..n -> KeyChars] : n \in 0..MaxKeyLen}

\* the headers the dispatcher sends a request with: those of _headers, those
\* of dispatch_request with auth, and those of dispatch_request without
FirstHeaders ==
    {Headers([kind |-> "sync", auth |-> Some(v), data |-> NoneVal]).headers : v \in KeyValues}
    \cup {LegacyHeaders([kind |-> "legacy", auth |-> a, data |-> NoneVal]) :
              a \in {NoneVal} \cup {Some(v) : v \in KeyValues}}

\* the session sends the first request of a call
RedirectInit ==
    /\ DispatcherInit
    /\ \E u \in Urls, h \in FirstHeaders : chain = <<[url |-> u, headers |-> h]>>
    /\ prepared = NoPrepared

\* resolve_redirects, one hop: the response to the last request redirects to
\* `location`; the request is copied, its url set to the location, rebuild_auth
\* is applied to it, and it is sent
Redirect(location) ==
    /\ Len(chain) <= MaxHops
    /\ LET last == chain[Len(chain)]
           copy == [last EXCEPT !.url = location]
       IN  /\ prepared' = copy
           /\ chain' = Append(chain, RebuildAuth(copy, last.url))
    /\ UNCHANGED dvars

RedirectNext == \E location \in Urls : Redirect(location)

RedirectSpec == RedirectInit /\ [][RedirectNext]_vars

\* ------------------------------------------------------------ specification
Next ==
    \/ Tick
    \/ \E r \in Reqs, request \in Requests : Call(r, request)
    \/ \E r \in Reqs : ThrottlerAcquire(r)
    \/ \E r \in Reqs : ThrottlerStamp(r)
    \/ \E r \in Reqs : DispatchSend(r)
    \/ \E r \in Reqs, response \in Responses : DispatchReceive(r, response)
    \/ \E r \in Reqs : DispatchTransportError(r)
    \/ \E r \in Reqs : DispatchAsyncSubmit(r)
    \/ WorkerStart
    \/ \E r \in Reqs, response \in Responses : WorkerReceive(r, response)
    \/ \E r \in Reqs : WorkerTransportError(r)
    \/ \E r \in Reqs : LegacySend(r)
    \/ \E r \in Reqs, response \in Responses : LegacyReceive(r, response)
    \/ \E r \in Reqs : LegacyTransportError(r)
    \/ \E r \in Reqs : ThrottlerExit(r)
    \/ \E r \in Reqs : ThrottlerRelease(r)

Spec == Init /\ [][Next]_vars

\* the asynchronous path alone: every caller calls _dispatch_async
PoolNext ==
    \/ Tick
    \/ \E r \in Reqs, request \in Requests : request.kind = "async" /\ Call(r, request)
    \/ \E r \in Reqs : ThrottlerAcquire(r)
    \/ \E r \in Reqs : ThrottlerStamp(r)
    \/ \E r \in Reqs : DispatchAsyncSubmit(r)
    \/ WorkerStart
    \/ \E r \in Reqs, response \in Responses : WorkerReceive(r, response)
    \/ \E r \in Reqs : WorkerTransportError(r)
    \/ \E r \in Reqs : ThrottlerExit(r)
    \/ \E r \in Reqs : ThrottlerRelease(r)

\* the executor's threads are scheduled and every transport call ends
FairSpec ==
    /\ Init
    /\ [][PoolNext]_vars
    /\ WF_vars(WorkerStart)
    /\ \A r \in Reqs :
          WF_vars((\E response \in Responses : WorkerReceive(r, response))
                  \/ WorkerTransportError(r))

\* a process with two dispatcher instances: every caller calls _dispatch of
\* one of them
TwoNext ==
    \/ Tick
    \/ \E r \in Reqs, request \in Requests, d \in Dispatchers :
          request.kind = "sync" /\ CallOn(r, request, d)
    \/ \E r \in Reqs : ThrottlerAcquire(r)
    \/ \E r \in Reqs : ThrottlerStamp(r)
    \/ \E r \in Reqs : DispatchSend(r)
    \/ \E r \in Reqs, response \in Responses : DispatchReceive(r, response)
    \/ \E r \in Reqs : DispatchTransportError(r)
    \/ \E r \in Reqs : ThrottlerExit(r)
    \/ \E r \in Reqs : ThrottlerRelease(r)

TwoSpec == Init /\ [][TwoNext]_vars

\* the callers' threads alone, in _dispatch and _dispatch_async of one
\* dispatcher (the executor's threads never touch the throttler)
GateNext ==
    \/ Tick
    \/ \E r \in Reqs, request \in Requests :
          request.kind \in {"sync", "async"} /\ Call(r, request)
    \/ \E r \in Reqs : ThrottlerAcquire(r)
    \/ \E r \in Reqs : ThrottlerStamp(r)
    \/ \E r \in Reqs : DispatchSend(r)
    \/ \E r \in Reqs, response \in Responses : DispatchReceive(r, response)
    \/ \E r \in Reqs : DispatchTransportError(r)
    \/ \E r \in Reqs : DispatchAsyncSubmit(r)
    \/ \E r \in Reqs : ThrottlerExit(r)
    \/ \E r \in Reqs : ThrottlerRelease(r)

\* what thread r does once it has called: it is scheduled, its transport call
\* ends and its sleep ends
ThreadStep(r) ==
    \/ ThrottlerAcquire(r)
    \/ ThrottlerStamp(r)
    \/ DispatchSend(r)
    \/ \E response \in Responses : DispatchReceive(r, response)
    \/ DispatchTransportError(r)
    \/ DispatchAsyncSubmit(r)
    \/ ThrottlerExit(r)
    \/ ThrottlerRelease(r)

\* every thread is scheduled, every transport call terminates, time passes
GateFairSpec ==
    /\ Init
    /\ [][GateNext]_vars
    /\ WF_vars(Tick)
    /\ \A r \in Reqs : WF_vars(ThreadStep(r))

\* ===================================================================== claims
Throttled(r) == req[r].kind \in {"sync", "async"}
InGate == {r \in Reqs : pc[r] \in {"stamp", "body", "net", "exit", "sleep"}}
Queued(r) == \E i \in 1..Len(queue) : queue[i].id = r
InvalidAPIKey == Raised("InvalidAPIKey", "No API key provided")

\* C1: a request without a credential, dispatched through _dispatch or
\* _dispatch_async, ends with InvalidAPIKey raised to the caller; no transport
\* call is ever started for it and it is never submitted to the worker pool.
C1_NoCredentialFailsBeforeNetwork ==
    \A r \in Reqs :
        (Throttled(r) /\ ~req[r].auth.some) =>
            /\ netCalls[r] = 0
            /\ pc[r] # "net"
            /\ job[r] = "none"
            /\ ~Queued(r)
            /\ pc[r] \in {"exit", "sleep"} => pending[r] = InvalidAPIKey
            /\ pc[r] = "done" => result[r] = InvalidAPIKey

C1_Witness ==
    \E r \in Reqs :
        /\ req[r].kind = "async"
        /\ ~req[r].auth.some
        /\ pc[r] = "done"
        /\ result[r].kind = "raise"

\* C2: any two successive entries into the throttler's scope are at least Wait
\* apart, so the N entries so far span at least (N-1) * Wait from the first to
\* the last, whatever the guarded bodies did.
C2_DispatchSpacing ==
    \A d \in Dispatchers :
        /\ \A i \in 1..(Len(starts[d]) - 1) : starts[d][i + 1] - starts[d][i] >= Wait
        /\ Len(starts[d]) >= 1 =>
               starts[d][Len(starts[d])] - starts[d][1] >= (Len(starts[d]) - 1) * Wait

C2_Witness ==
    /\ Len(starts[1]) = NumReq
    /\ \E r \in Reqs : acquired[r] = 1 /\ result[r].kind = "raise"

\* C3: at most one thread is between the throttler's acquire and its release.
C3_MutualExclusion == Cardinality(InGate) <= 1

C3_Witness ==
    \E r, q \in Reqs :
        /\ req[r].kind = "sync" /\ pc[r] = "net"
        /\ pc[q] = "acquire"

\* C4: every request on the wire, of whichever operation, was preceded by
\* exactly one acquisition of the throttler.
C4_EveryRequestThrottled ==
    \A r \in Reqs : netCalls[r] > 0 => acquired[r] = 1

\* C7: a request with a credential, sent by _dispatch or _dispatch_async, is
\* on the wire with Authorization: api-key <value>, and with Content-Type:
\* application/json exactly when its body is non-empty.
C7_HeadersOnTheWire ==
    \A r \in Reqs :
        (Throttled(r) /\ req[r].auth.some /\ netCalls[r] > 0) =>
            /\ "Authorization" \in DOMAIN sent[r]
            /\ sent[r]["Authorization"] = ApiKeyPrefix \o req[r].auth.chars
            /\ "Content-Type" \in DOMAIN sent[r] <=> Truthy(req[r].data)
            /\ "Content-Type" \in DOMAIN sent[r] => sent[r]["Content-Type"] = ContentJson

C7_Witness ==
    \E r \in Reqs :
        /\ req[r].kind = "async"
        /\ Truthy(req[r].data)
        /\ netCalls[r] = 1
        /\ DOMAIN sent[r] = {"Authorization", "Content-Type"}

\* C8: _dispatch returns a response only when its status is no failure; for a
\* 4xx/5xx response the caller gets the status error whose text is the
\* response's body, and no response.
C8_StatusCheckedBeforeReturn ==
    \A r \in Reqs :
        req[r].kind = "sync" =>
            /\ result[r].kind = "return" => resp[r].status \in 1..399
            /\ (pc[r] \in {"exit", "sleep"} /\ resp[r].status >= 400) =>
                   pending[r] = Raised("APIException", resp[r].text)
            /\ (pc[r] = "done" /\ resp[r].status >= 400) =>
                   result[r] = Raised("APIException", resp[r].text)

C8_Witness ==
    \E r \in Reqs :
        /\ req[r].kind = "sync"
        /\ pc[r] = "done"
        /\ resp[r].status = 404
        /\ result[r] = Raised("APIException", "Error message")

\* C9 as stated: once the task of a submitted request is over, whichever way
\* its transport call ended, its callback has run exactly once.
C9_CallbackOnceWhateverOutcome ==
    \A r \in Reqs : job[r] \in {"finished", "failed"} => cbCount[r] = 1

\* C9 amended: the callback never runs twice; it has run exactly once when the
\* transport call returned a response and not at all when it raised; and the
\* task of every submitted request comes to one of these two ends.
C9_CallbackOnceOnResponse ==
    /\ [](\A r \in Reqs :
            /\ cbCount[r] <= 1
            /\ job[r] = "finished" => cbCount[r] = 1 /\ resp[r].status # 0
            /\ job[r] # "finished" => cbCount[r] = 0)
    /\ \A r \in Reqs : (job[r] = "queued") ~> (job[r] \in {"finished", "failed"})

C9_Witness ==
    \E r \in Reqs : job[r] = "finished" /\ cbCount[r] = 1 /\ resp[r].status >= 400

\* C10: never more than Workers transport calls of the pool run at once; a
\* submitted request waits in the queue and is eventually executed.
C10_BoundedPool ==
    /\ [](Cardinality(Running) <= Workers)
    /\ \A r \in Reqs : (job[r] = "queued") ~> (job[r] = "running")

C10_Witness ==
    /\ Cardinality(Running) = Workers
    /\ queue # <<>>

\* ------------------------------------------------------- claims on redirects
\* the value a header of the form 'api-key <value>...' carries: the non-empty
\* run of non-whitespace characters that follows the prefix
PatternValues(h) ==
    LET n == Len(ApiKeyPrefix)
    IN  {SubSeq(h, n + 1, k) : k \in {j \in (n + 1)..Len(h) :
            /\ SubSeq(h, 1, n) = ApiKeyPrefix
            /\ \A i \in (n + 1)..j : h[i] # " "
            /\ j = Len(h) \/ h[j + 1] = " "}}

\* the pieces of s between the separators
RECURSIVE SplitOn(_, _)
SplitOn(s, sep) ==
    IF \E i \in 1..Len(s) : s[i] = sep
    THEN LET i == CHOOSE j \in 1..Len(s) : s[j] = sep /\ \A k \in 1..(j - 1) : s[k] # sep
         IN  <<SubSeq(s, 1, i - 1)>> \o SplitOn(SubSeq(s, i + 1, Len(s)), sep)
    ELSE <<s>>

\* percent-decoding, as the receiving server does it
RECURSIVE Unquote(_)
Unquote(s) ==
    IF s = <<>> THEN <<>>
    ELSE IF Head(s) = "%" /\ Len(s) >= 3
         THEN LET code == <<s[2], s[3]>>
                  c == CASE code = <<"2", "6">> -> "&"
                         [] code = <<"3", "D">> -> "="
                         [] code = <<"2", "5">> -> "%"
                         [] OTHER -> "?"
              IN  <<c>> \o Unquote(SubSeq(s, 4, Len(s)))
         ELSE <<IF Head(s) = "+" THEN " " ELSE Head(s)>> \o Unquote(Tail(s))

\* the (name, value) pairs a query string carries
QueryParams(query) ==
    IF query = <<>> THEN {}
    ELSE LET parts == SplitOn(query, "&")
         IN  {LET kv == SplitOn(parts[i], "=")
              IN  <<Unquote(kv[1]),
                    IF Len(kv) >= 2 THEN Unquote(SubSeq(parts[i], Len(kv[1]) + 2, Len(parts[i])))
                    ELSE <<>>>> : i \in 1..Len(parts)}

Redirected == Len(chain) >= 2
RedirectedFrom == chain[Len(chain) - 1].url
RedirectedTo == chain[Len(chain)]
CrossDomain == LastTwo(RedirectedFrom.host) # LastTwo(prepared.url.host)

\* C5: after a redirect to another registered domain of a request that
\* carries Authorization, the request sent has no Authorization header and its
\* other headers as before; when the header has the form 'api-key <value>'
\* the url has gained the query parameter api_key with that value, and
\* otherwise the url is as it was.
C5_CrossDomainRedirect ==
    (Redirected /\ CrossDomain /\ "Authorization" \in DOMAIN prepared.headers) =>
        LET values == PatternValues(prepared.headers["Authorization"])
        IN  /\ "Authorization" \notin DOMAIN RedirectedTo.headers
            /\ RedirectedTo.headers = Pop(prepared.headers, "Authorization")
            /\ RedirectedTo.url.host = prepared.url.host
            /\ \A v \in values :
                  /\ <<(<<"api_key">>), v>> \in QueryParams(RedirectedTo.url.query)
                  /\ QueryParams(prepared.url.query) \subseteq QueryParams(RedirectedTo.url.query)
            /\ values = {} => RedirectedTo.url = prepared.url

C5_Witness ==
    /\ Redirected /\ CrossDomain
    /\ "Authorization" \in DOMAIN prepared.headers
    /\ prepared.url.query # <<>>
    /\ <<(<<"api_key">>), <<"a", "&">>>> \in QueryParams(RedirectedTo.url.query)

\* C6: a redirect within one registered domain, or of a request without an
\* Authorization header, leaves the request as it was prepared: the headers
\* and the url are unchanged.
C6_RedirectFrame ==
    (Redirected /\ (~CrossDomain \/ "Authorization" \notin DOMAIN prepared.headers)) =>
        RedirectedTo = prepared

C6_Witness ==
    /\ Redirected
    /\ ~CrossDomain
    /\ RedirectedFrom.host # prepared.url.host
    /\ "Authorization" \in DOMAIN RedirectedTo.headers
    /\ RedirectedTo = prepared

\* ------------------------------------------------------------- later claims
\* C13: no request is on the wire without an Authorization header, whichever
\* operation sent it.
C13_NeverUnauthenticated ==
    \A r \in Reqs : netCalls[r] > 0 => "Authorization" \in DOMAIN sent[r]

HasAuth(request) == "Authorization" \in DOMAIN request.headers

\* C17: along the chain of redirects of one call, every request that carries
\* Authorization goes to a host of the registered domain of the first
\* request's host, and after a request without the header no later one has it.
C17_RedirectChain ==
    \A i \in 1..Len(chain) :
        /\ HasAuth(chain[i]) => LastTwo(chain[i].url.host) = LastTwo(chain[1].url.host)
        /\ \A j \in i..Len(chain) : ~HasAuth(chain[i]) => ~HasAuth(chain[j])

C17_Witness ==
    /\ Len(chain) = 3
    /\ HasAuth(chain[1])
    /\ LastTwo(chain[2].url.host) # LastTwo(chain[1].url.host)
    /\ chain[3].url.host = chain[1].url.host
    /\ ~HasAuth(chain[3])

\* the transport call of r ended without a response
TransportFailed(r) ==
    /\ netCalls[r] = 1
    /\ resp[r].status = 0
    /\ \/ pc[r] \in {"exit", "sleep", "done"} /\ req[r].kind \in {"sync", "legacy"}
       \/ job[r] = "failed"

Succeeded(r) == pc[r] = "done" /\ result[r].kind = "return"

\* C15 as stated: every dispatch, _dispatch or _dispatch_async, has its request
\* record before its transport call, and has a latency record exactly when it
\* completed without raising.
C15_LoggedAndTimed ==
    \A r \in Reqs :
        Throttled(r) =>
            /\ (netCalls[r] > 0 \/ pc[r] \in {"exit", "sleep", "done"}) => logged[r] = 1
            /\ pc[r] = "done" => (timed[r] = 1 <=> Succeeded(r))

\* C15 amended: the request record is written once before the transport call
\* and also when the dispatch raises InvalidAPIKey; _dispatch writes one
\* latency record exactly when it ends without raising; _dispatch_async
\* writes none.
C15_LoggedAndSyncTimed ==
    \A r \in Reqs :
        Throttled(r) =>
            /\ (netCalls[r] > 0 \/ pc[r] \in {"net", "exit", "sleep", "done"}) => logged[r] = 1
            /\ logged[r] <= 1
            /\ req[r].kind = "sync" =>
                   /\ pc[r] \in {"exit", "sleep", "done"} =>
                          (timed[r] = 1 <=> pending[r].kind = "return")
                   /\ pc[r] \notin {"exit", "sleep", "done"} => timed[r] = 0
            /\ req[r].kind = "async" => timed[r] = 0

C15_Witness ==
    \E r \in Reqs :
        /\ req[r].kind = "sync"
        /\ pc[r] = "done"
        /\ result[r].what = "APIException"
        /\ logged[r] = 1
        /\ timed[r] = 0

\* C18: _dispatch_async validates no status: a 4xx/5xx response ends the task
\* as any response does, the callback and the future get it as it is, and
\* the caller of _dispatch_async has its future; _dispatch raises for it.
C18_AsyncNoStatusCheck ==
    \A r \in Reqs :
        /\ (req[r].kind = "async" /\ resp[r].status >= 400) =>
               /\ job[r] = "finished"
               /\ cbCount[r] = 1
               /\ pc[r] = "done" => result[r] = Returned("future")
        /\ (req[r].kind = "async" /\ result[r].kind = "raise") => result[r] = InvalidAPIKey
        /\ (req[r].kind = "sync" /\ resp[r].status >= 400 /\ pc[r] = "done") =>
               result[r] = Raised("APIException", resp[r].text)

C18_Witness ==
    \E r \in Reqs :
        /\ req[r].kind = "async"
        /\ resp[r].status = 404
        /\ job[r] = "finished"
        /\ cbCount[r] = 1
        /\ pc[r] = "done"

\* the instants the callers on one dispatcher can see
Instants == 0..(NumReq * (Wait + 1))

\* C11: no two transport calls of the asynchronous path start closer together
\* than Wait, the tasks that waited in the executor's queue included: when
\* neither of two requests is on the wire at an instant n, they are not both
\* on the wire before n + Wait.
C11_TransmissionSpacing ==
    \A n \in Instants : \A r, q \in Reqs :
        [](((r # q) /\ now = n /\ netCalls[r] = 0 /\ netCalls[q] = 0) =>
              [](now < n + Wait => ~(netCalls[r] = 1 /\ netCalls[q] = 1)))

\* C19: while a thread is between its own __enter__ and its release, the
\* throttler's _t is the value that thread wrote: no other thread wrote it in
\* between, so __exit__ computes its wait from the thread's own entry.
C19_OwnTimestamp ==
    \A r \in Reqs :
        pc[r] \in {"body", "net", "exit", "sleep"} =>
            t[Throttler(disp[r])] = stampOf[r]

C19_Witness ==
    \E r, q \in Reqs :
        /\ pc[r] = "sleep"
        /\ now > stampOf[r]
        /\ pc[q] = "done" /\ acquired[q] = 1
        /\ Len(starts[Throttler(disp[r])]) = 2

\* the callers inside the scope of dispatcher d's throttler
InGateOf(d) == {r \in InGate : disp[r] = d}

\* C12 as stated: one gate for the whole process, so at most one dispatch of
\* any dispatcher is in a throttler's scope and any two entries, of whichever
\* dispatchers, are at least Wait apart.
C12_OneGateForAll ==
    /\ Cardinality(InGate) <= 1
    /\ \A d, e \in Dispatchers : \A i \in 1..Len(starts[d]), j \in 1..Len(starts[e]) :
          (d # e /\ starts[d][i] <= starts[e][j]) => starts[e][j] - starts[d][i] >= Wait

\* C12, amended: each dispatcher has its own gate.  The dispatches through one
\* dispatcher exclude each other and enter at least Wait apart; a dispatcher's
\* gate is taken exactly while one of its own dispatches is in scope, whatever
\* the dispatches through another dispatcher do.
C12_GatePerDispatcher ==
    \A d \in Dispatchers :
        /\ Cardinality(InGateOf(d)) <= 1
        /\ sem[d] = SemaphoreInit - Cardinality(InGateOf(d))
        /\ Len(starts[d]) =
              Cardinality({r \in Reqs : disp[r] = d /\ acquired[r] = 1 /\ pc[r] # "stamp"})
        /\ \A i \in 1..(Len(starts[d]) - 1) : starts[d][i + 1] - starts[d][i] >= Wait

C12_Witness ==
    \E r, q \in Reqs :
        /\ disp[r] # disp[q]
        /\ pc[r] = "net" /\ pc[q] = "net"
        /\ stampOf[r] = stampOf[q]

\* C16: the gate is held exactly by the dispatches in scope, so a finished
\* dispatch holds nothing, whichever way it ended; the caller gets the body's
\* outcome, an exception included; and, every transport call terminating,
\* whenever a thread waits on the gate some thread eventually enters it.
C16_ReleasedOnEveryPath ==
    /\ [](\A d \in Dispatchers : sem[d] = SemaphoreInit - Cardinality(InGateOf(d)))
    /\ [](\A r \in Reqs : pc[r] = "done" => (acquired[r] = 1 /\ result[r] = pending[r]))
    /\ ((\E r \in Reqs : pc[r] = "acquire") ~> (\E q \in Reqs : pc[q] = "stamp"))

C16_Witness ==
    \E r, q \in Reqs :
        /\ pc[r] = "done"
        /\ result[r] = Raised("TransportError", "connection reset")
        /\ acquired[q] = 1 /\ pc[q] = "stamp"

====
